---- MODULE Spec2Model ----
(***************************************************************************)
(* Model of the chat relay of src/server/server.js: the socket.io          *)
(* connection handler (join, sendMessage, typing, disconnect), the         *)
(* process-wide activeUsers map and messages array, and the optional       *)
(* MongoDB write of sendMessage.                                           *)
(*                                                                         *)
(* Node runs each handler to completion on one event loop, so a handler is *)
(* one action.  The only suspension point is `await dbMessage.save()`      *)
(* (line 172): when a Message model is configured, sendMessage is split in *)
(* the part before the await (action SendMessage) and the continuation     *)
(* that runs when the save settles (SaveResolved / SaveRejected).  Saves   *)
(* settle in any order and at any later time, or never.                    *)
(*                                                                         *)
(* The handlers are closures over `socket`; they are modelled as callable  *)
(* for every socket whose connection callback has run, also after its      *)
(* disconnect (sock = "closed"), so that event sequences which carry an    *)
(* event for a closed connection id can be examined.                       *)
(***************************************************************************)
EXTENDS Integers, Sequences, FiniteSets, TLC

\* ------------------------------------------------------------------ inputs
Conns == {"c1", "c2"}
Usernames == {"alice", "bob"}
Bodies == {"hi"}

\* the single username / body used by the long-run specification SpecLong
LongUsernames == {"alice"}
LongBodies == {"hi"}

\* bounds of the model
MaxSends == 1
MaxClock == 1
MaxOrderSends == 2
MaxLongSends == 102

\* program constants
Capacity == 100
HistoryLen == 20

VARIABLES
  Message,        \* TRUE iff the mongoose model exists (MONGODB_URI set), line 40
  sock,           \* per socket id: "none" | "open" | "closed"
  activeUsers,    \* the Map of line 69, in insertion order
  messages,       \* the array of line 70
  pending,        \* sendMessage handlers suspended at the await of line 172
  now,            \* the wall clock read by Date.now() / new Date()
  out,            \* what the last step emitted, in emission order
  last,           \* the event the last step processed
  appended,       \* number of messages pushed so far
  saveCalls,      \* seq numbers for which dbMessage.save() was called, in order
  broadcastOrder, \* seq numbers emitted as newMessage, in order
  owed            \* pairs <<c, n>>: c was handed message n in a messageHistory
                  \* while the newMessage of n was still to be emitted

vars == <<Message, sock, activeUsers, messages, pending, now, out, last,
          appended, saveCalls, broadcastOrder, owed>>

\* ------------------------------------------------------------- JS helpers
Max(a, b) == IF a >= b THEN a ELSE b

\* Map.prototype.has / get / set / delete / values on an insertion-ordered Map
\* whose values carry their key in the field id
MapHas(m, k) == \E i \in 1..Len(m) : m[i].id = k

MapGet(m, k) == m[CHOOSE i \in 1..Len(m) : m[i].id = k]

\* mutant: every set adds an entry, also for a key that is present
MapSetAlwaysAppends(m, k, v) == Append(m, v)

MapSet(m, k, v) ==
  IF MapHas(m, k)
  THEN [i \in 1..Len(m) |-> IF m[i].id = k THEN v ELSE m[i]]
  ELSE Append(m, v)

\* mutant: the activeUsers.delete of line 203 forgotten
MapDeleteForgotten(m, k) == m

MapDelete(m, k) == SelectSeq(m, LAMBDA u : u.id # k)

\* mutant: slice(-n) off by one, n + 1 entries
SliceLastOffByOne(s, n) == SubSeq(s, Max(1, Len(s) - n), Len(s))

\* mutant: slice(-n, -1), the newest entry left out of the history
SliceLastDropsNewest(s, n) == SubSeq(s, Max(1, Len(s) - n), Len(s) - 1)

\* Array.prototype.slice(-n)
SliceLast(s, n) == SubSeq(s, Max(1, Len(s) - n + 1), Len(s))

\* mutant: `>=` for `>` in the test of line 160
PushMessageOffByOne(s, m) ==
  LET pushed == Append(s, m)
  IN IF Len(pushed) >= Capacity THEN Tail(pushed) ELSE pushed

\* messages.push(message); if (messages.length > 100) messages.shift();
PushMessage(s, m) ==
  LET pushed == Append(s, m)
  IN IF Len(pushed) > Capacity THEN Tail(pushed) ELSE pushed

\* --------------------------------------------------------- socket.io emits
Open == {c \in Conns : sock[c] = "open"}

\* socket.emit: to this socket only
SocketEmit(socket, event, payload) ==
  [event |-> event, to |-> {socket}, payload |-> payload]

\* mutant: io.emit used where socket.broadcast.emit is meant
BroadcastEmitToAll(socket, event, payload) ==
  [event |-> event, to |-> Open, payload |-> payload]

\* socket.broadcast.emit: to every connected socket except this one
BroadcastEmit(socket, event, payload) ==
  [event |-> event, to |-> Open \ {socket}, payload |-> payload]

\* io.emit: to every connected socket
IoEmit(event, payload) ==
  [event |-> event, to |-> Open, payload |-> payload]

\* arg is the isTyping payload of a typing event, FALSE for every other event
Event(op, socket, registered, seq) ==
  [op |-> op, socket |-> socket, registered |-> registered, seq |-> seq,
   arg |-> FALSE]

\* ------------------------------------------------------------------- Init
Init ==
  /\ Message \in BOOLEAN
  /\ sock = [c \in Conns |-> "none"]
  /\ activeUsers = <<>>
  /\ messages = <<>>
  /\ pending = {}
  /\ now = 0
  /\ out = <<>>
  /\ last = Event("start", "", FALSE, 0)
  /\ appended = 0
  /\ saveCalls = <<>>
  /\ broadcastOrder = <<>>
  /\ owed = {}

\* ---------------------------------------------------------------- actions
\* time passes between two events
Tick ==
  /\ now < MaxClock
  /\ now' = now + 1
  /\ out' = <<>>
  /\ last' = Event("tick", "", FALSE, 0)
  /\ UNCHANGED <<Message, sock, activeUsers, messages, pending, appended,
                 saveCalls, broadcastOrder, owed>>

\* io.on('connection'): a new socket, its handlers are registered
Connection(socket) ==
  /\ sock[socket] = "none"
  /\ sock' = [sock EXCEPT ![socket] = "open"]
  /\ out' = <<>>
  /\ last' = Event("connection", socket, FALSE, 0)
  /\ UNCHANGED <<Message, activeUsers, messages, pending, now, appended,
                 saveCalls, broadcastOrder, owed>>

\* socket.on('join')
Join(socket, username) ==
  /\ sock[socket] # "none"
  /\ activeUsers' = MapSet(activeUsers, socket,
                           [id |-> socket, username |-> username, joinedAt |-> now])
  /\ out' = << BroadcastEmit(socket, "userJoined",
                 [username |-> username,
                  message |-> <<username, "joined the chat">>,
                  timestamp |-> now]),
               SocketEmit(socket, "usersList", activeUsers'),
               SocketEmit(socket, "messageHistory", SliceLast(messages, HistoryLen)) >>
  /\ last' = Event("join", socket, MapHas(activeUsers, socket), 0)
  /\ owed' = owed \cup
       {<<socket, p.message.seq>> : p \in
          {q \in pending :
             \E i \in 1..Len(SliceLast(messages, HistoryLen)) :
                SliceLast(messages, HistoryLen)[i].seq = q.message.seq}}
  /\ UNCHANGED <<Message, sock, messages, pending, now, appended,
                 saveCalls, broadcastOrder>>

\* the continuation of sendMessage after the (skipped or settled) save:
\* console.log and io.emit('newMessage', message)
BroadcastNewMessage(message) ==
  /\ out' = << IoEmit("newMessage", message) >>
  /\ broadcastOrder' = Append(broadcastOrder, message.seq)
  /\ owed' = {x \in owed : x[2] # message.seq}

\* lines 149-181 of sendMessage, for the user found at line 146: up to the
\* await of line 172 when Message is set, to the end otherwise
AcceptMessage(socket, user, body) ==
  LET message == [seq |-> appended + 1,
                  id |-> now,
                  username |-> user.username,
                  message |-> body,
                  timestamp |-> now]
  IN /\ messages' = PushMessage(messages, message)
     /\ appended' = appended + 1
     /\ IF Message
        THEN /\ saveCalls' = Append(saveCalls, message.seq)
             /\ pending' = pending \cup {[socket |-> socket, message |-> message]}
             /\ out' = <<>>
             /\ UNCHANGED <<broadcastOrder, owed>>
        ELSE /\ BroadcastNewMessage(message)
             /\ UNCHANGED <<saveCalls, pending>>
     /\ UNCHANGED <<Message, sock, activeUsers, now>>

\* mutant: the `if (!user) return` of line 147 missing, an unknown sender's
\* message goes out under a placeholder name
SendMessageUnchecked(socket, body) ==
  /\ sock[socket] # "none"
  /\ last' = Event("sendMessage", socket, MapHas(activeUsers, socket), appended + 1)
  /\ AcceptMessage(socket,
                   IF MapHas(activeUsers, socket)
                   THEN MapGet(activeUsers, socket)
                   ELSE [id |-> socket, username |-> "undefined", joinedAt |-> now],
                   body)

\* socket.on('sendMessage')
SendMessage(socket, body) ==
  /\ sock[socket] # "none"
  /\ last' = Event("sendMessage", socket, MapHas(activeUsers, socket), appended + 1)
  /\ IF ~MapHas(activeUsers, socket)
     THEN /\ out' = <<>>
          /\ UNCHANGED <<Message, sock, activeUsers, messages, pending, now,
                         appended, saveCalls, broadcastOrder, owed>>
     ELSE AcceptMessage(socket, MapGet(activeUsers, socket), body)

\* mutant: the continuation reads the sender's name again after the await,
\* instead of the copy taken at line 151
SaveResolvedLooksUpUser(p) ==
  /\ p \in pending
  /\ pending' = pending \ {p}
  /\ BroadcastNewMessage(
        [p.message EXCEPT !.username =
           IF MapHas(activeUsers, p.socket)
           THEN MapGet(activeUsers, p.socket).username
           ELSE "undefined"])
  /\ last' = Event("saveResolved", p.socket, TRUE, p.message.seq)
  /\ UNCHANGED <<Message, sock, activeUsers, messages, now, appended,
                 saveCalls>>

\* dbMessage.save() resolved: the handler resumes after line 172
SaveResolved(p) ==
  /\ p \in pending
  /\ pending' = pending \ {p}
  /\ BroadcastNewMessage(p.message)
  /\ last' = Event("saveResolved", p.socket, TRUE, p.message.seq)
  /\ UNCHANGED <<Message, sock, activeUsers, messages, now, appended,
                 saveCalls>>

\* mutant: the error of a failed save escapes the handler, which drops the
\* message and never reaches the io.emit of line 181
SaveRejectedAborts(p) ==
  /\ p \in pending
  /\ pending' = pending \ {p}
  /\ messages' = SelectSeq(messages, LAMBDA m : m.seq # p.message.seq)
  /\ out' = <<>>
  /\ last' = Event("saveRejected", p.socket, TRUE, p.message.seq)
  /\ UNCHANGED <<Message, sock, activeUsers, now, appended, saveCalls,
                 broadcastOrder, owed>>

\* mutant: the catch of line 173 returns after logging, the message of a
\* failed save is never broadcast
SaveRejectedReturns(p) ==
  /\ p \in pending
  /\ pending' = pending \ {p}
  /\ out' = <<>>
  /\ last' = Event("saveRejected", p.socket, TRUE, p.message.seq)
  /\ UNCHANGED <<Message, sock, activeUsers, messages, now, appended, saveCalls,
                 broadcastOrder, owed>>

\* dbMessage.save() rejected: the catch of line 173 logs, the handler goes on
SaveRejected(p) ==
  /\ p \in pending
  /\ pending' = pending \ {p}
  /\ BroadcastNewMessage(p.message)
  /\ last' = Event("saveRejected", p.socket, TRUE, p.message.seq)
  /\ UNCHANGED <<Message, sock, activeUsers, messages, now, appended, saveCalls>>

\* mutant: the `if (!user) return` of line 187 missing, an unknown sender's
\* typing goes out under a placeholder name
TypingUnchecked(socket, isTyping) ==
  /\ sock[socket] # "none"
  /\ last' = [Event("typing", socket, MapHas(activeUsers, socket), 0)
                EXCEPT !.arg = isTyping]
  /\ out' = << BroadcastEmit(socket, "userTyping",
                 [username |-> IF MapHas(activeUsers, socket)
                               THEN MapGet(activeUsers, socket).username
                               ELSE "undefined",
                  isTyping |-> isTyping]) >>
  /\ UNCHANGED <<Message, sock, activeUsers, messages, pending, now, appended,
                 saveCalls, broadcastOrder, owed>>

\* socket.on('typing')
Typing(socket, isTyping) ==
  /\ sock[socket] # "none"
  /\ last' = [Event("typing", socket, MapHas(activeUsers, socket), 0)
                EXCEPT !.arg = isTyping]
  /\ out' = IF ~MapHas(activeUsers, socket)
            THEN <<>>
            ELSE << BroadcastEmit(socket, "userTyping",
                      [username |-> MapGet(activeUsers, socket).username,
                       isTyping |-> isTyping]) >>
  /\ UNCHANGED <<Message, sock, activeUsers, messages, pending, now, appended,
                 saveCalls, broadcastOrder, owed>>

\* socket.on('disconnect'); the transport has dropped the socket before the
\* handler runs
Disconnect(socket) ==
  /\ sock[socket] # "none"
  /\ sock' = [sock EXCEPT ![socket] = "closed"]
  /\ last' = Event("disconnect", socket, MapHas(activeUsers, socket), 0)
  /\ IF MapHas(activeUsers, socket)
     THEN LET user == MapGet(activeUsers, socket)
          IN /\ activeUsers' = MapDelete(activeUsers, socket)
             /\ out' = << [event |-> "userLeft",
                           to |-> {c \in Conns : sock'[c] = "open"} \ {socket},
                           payload |-> [username |-> user.username,
                                        message |-> <<user.username, "left the chat">>,
                                        timestamp |-> now]] >>
     ELSE /\ out' = <<>>
          /\ UNCHANGED activeUsers
  /\ UNCHANGED <<Message, messages, pending, now, appended, saveCalls,
                 broadcastOrder, owed>>

\* ---------------------------------------------------------- specifications
Next ==
  \/ Tick
  \/ \E c \in Conns : Connection(c)
  \/ \E c \in Conns, u \in Usernames : Join(c, u)
  \/ \E c \in Conns, b \in Bodies : appended < MaxSends /\ SendMessage(c, b)
  \/ \E p \in pending : SaveResolved(p)
  \/ \E p \in pending : SaveRejected(p)
  \/ \E c \in Conns, t \in BOOLEAN : Typing(c, t)
  \/ \E c \in Conns : Disconnect(c)

Spec == Init /\ [][Next]_vars

\* several sends in flight at once, no clock ticks, no typing events
NextOrder ==
  \/ \E c \in Conns : Connection(c)
  \/ \E c \in Conns, u \in Usernames : Join(c, u)
  \/ \E c \in Conns, b \in Bodies : appended < MaxOrderSends /\ SendMessage(c, b)
  \/ \E p \in pending : SaveResolved(p)
  \/ \E p \in pending : SaveRejected(p)
  \/ \E c \in Conns : Disconnect(c)

SpecOrder == Init /\ [][NextOrder]_vars

\* the save of message n settles, one way or the other
SaveSettles(n) ==
  \E p \in pending :
     p.message.seq = n /\ (SaveResolved(p) \/ SaveRejected(p))

\* as NextOrder, with one username
NextFair ==
  \/ \E c \in Conns : Connection(c)
  \/ \E c \in Conns, u \in LongUsernames : Join(c, u)
  \/ \E c \in Conns, b \in Bodies : appended < MaxOrderSends /\ SendMessage(c, b)
  \/ \E p \in pending : SaveResolved(p)
  \/ \E p \in pending : SaveRejected(p)
  \/ \E c \in Conns : Disconnect(c)

\* several sends in flight, every save that was called settling eventually
SpecFair ==
  /\ Init
  /\ [][NextFair]_vars
  /\ \A n \in 1..MaxOrderSends : WF_vars(SaveSettles(n))

\* long runs of one username and one body, at most one save in flight, no clock
\* ticks: reaches the log's capacity and histories longer than HistoryLen
NextLong ==
  \/ \E c \in Conns : Connection(c)
  \/ \E c \in Conns, u \in LongUsernames : Join(c, u)
  \/ \E c \in Conns, b \in LongBodies :
        /\ appended < MaxLongSends
        /\ pending = {}
        /\ SendMessage(c, b)
  \/ \E p \in pending : SaveResolved(p)
  \/ \E p \in pending : SaveRejected(p)
  \/ \E c \in Conns : Disconnect(c)

SpecLong == Init /\ [][NextLong]_vars

\* ------------------------------------------------------------------ claims
\* emissions of the last step with a given event name
Emitted(event) == SelectSeq(out, LAMBDA e : e.event = event)

Min(a, b) == IF a <= b THEN a ELSE b

\* C1: a sendMessage of a registered participant is broadcast without waiting
\* for the persistence write: between two events no message is in the log
\* without its newMessage having been emitted, so no other event can be
\* processed between the append and the broadcast.
C1_BroadcastDoesNotWaitForSave ==
  \A n \in 1..appended : \E i \in 1..Len(broadcastOrder) : broadcastOrder[i] = n

\* C2: a join for a connection id that is already registered is rejected and
\* leaves the registry (the earlier username and joinedAt) as it was.
C2_DuplicateJoinRejected ==
  [][(last'.op = "join" /\ MapHas(activeUsers, last'.socket))
       => activeUsers' = activeUsers]_vars

\* C3: newMessage broadcasts are emitted in the order in which the messages
\* were appended to the log (the arrival order of their sendMessage events).
C3_BroadcastOrderIsArrivalOrder ==
  \A i, j \in 1..Len(broadcastOrder) :
     i < j => broadcastOrder[i] < broadcastOrder[j]

\* C4: the log never holds more than Capacity messages, and holds exactly the
\* most recently appended ones (all of them up to Capacity), oldest first.
C4_LogHoldsMostRecent ==
  /\ Len(messages) <= Capacity
  /\ Len(messages) = Min(appended, Capacity)
  /\ \A i \in 1..Len(messages) :
        messages[i].seq = appended - Len(messages) + i

\* C4 witness: after Capacity + 1 sends the first retained entry is message #2
C4_Witness ==
  /\ appended = Capacity + 1
  /\ Len(messages) = Capacity
  /\ messages[1].seq = 2

C6_UnknownSenderDropped ==
  [][(last'.op = "sendMessage" /\ ~MapHas(activeUsers, last'.socket))
       => /\ messages' = messages
          /\ appended' = appended
          /\ saveCalls' = saveCalls
          /\ pending' = pending
          /\ broadcastOrder' = broadcastOrder
          /\ out' = <<>>]_vars

\* C6 witness: an unregistered connection has sent while another participant
\* is registered and connected
C6_Witness ==
  /\ last.op = "sendMessage"
  /\ ~last.registered
  /\ \E c \in Open \ {last.socket} : MapHas(activeUsers, c)

\* C7: the registry's size is the number of join events minus the number of
\* disconnect events that matched a registered connection id: every join
\* event adds one, every matching disconnect removes one, no other event (a
\* repeated or unmatched disconnect included) changes it.
C7_SizeIsJoinsMinusMatchedDisconnects ==
  [][/\ last'.op = "join" => Len(activeUsers') = Len(activeUsers) + 1
     /\ (last'.op = "disconnect" /\ MapHas(activeUsers, last'.socket))
          => Len(activeUsers') = Len(activeUsers) - 1
     /\ (last'.op # "join"
          /\ ~(last'.op = "disconnect" /\ MapHas(activeUsers, last'.socket)))
          => Len(activeUsers') = Len(activeUsers)]_vars

\* C7 amended: the registry's size is the number of join events for a
\* connection id that was not registered at that time, minus the number of
\* disconnect events that matched a registered connection id; a join for a
\* registered id, an unmatched or repeated disconnect and every other event
\* leave it unchanged, and it is never negative.
C7_SizeIsNewJoinsMinusMatchedDisconnects ==
  [][/\ (last'.op = "join" /\ ~MapHas(activeUsers, last'.socket))
          => Len(activeUsers') = Len(activeUsers) + 1
     /\ (last'.op = "disconnect" /\ MapHas(activeUsers, last'.socket))
          => Len(activeUsers') = Len(activeUsers) - 1
     /\ ~(\/ last'.op = "join" /\ ~MapHas(activeUsers, last'.socket)
          \/ last'.op = "disconnect" /\ MapHas(activeUsers, last'.socket))
          => Len(activeUsers') = Len(activeUsers)
     /\ Len(activeUsers') >= 0
     /\ Len(activeUsers') = Cardinality({c \in Conns : MapHas(activeUsers', c)})]_vars

\* C7 witness: a join for an already registered connection id has been
\* processed and the registry still holds one participant
C7_Witness ==
  /\ last.op = "join"
  /\ last.registered
  /\ Len(activeUsers) = 1

\* C8: a join sends the joining connection, and it alone, one usersList equal
\* to the registry after the registration (the joiner included) and one
\* messageHistory equal to the last HistoryLen entries of the log (all of
\* them if fewer), oldest first; no other event sends either.
C8_JoinSnapshot ==
  LET ul == Emitted("usersList")
      mh == Emitted("messageHistory")
  IN IF last.op = "join"
     THEN /\ Len(ul) = 1
          /\ ul[1].to = {last.socket}
          /\ ul[1].payload = activeUsers
          /\ MapHas(activeUsers, last.socket)
          /\ Len(mh) = 1
          /\ mh[1].to = {last.socket}
          /\ Len(mh[1].payload) = Min(HistoryLen, Len(messages))
          /\ \A i \in 1..Len(mh[1].payload) :
                mh[1].payload[i] =
                  messages[Len(messages) - Len(mh[1].payload) + i]
     ELSE ul = <<>> /\ mh = <<>>

\* C8 witness: a second participant joins when the log holds more than
\* HistoryLen messages
C8_Witness ==
  /\ last.op = "join"
  /\ Len(activeUsers) = 2
  /\ Len(messages) > HistoryLen
  /\ Len(Emitted("messageHistory")) = 1
  /\ Len(Emitted("messageHistory")[1].payload) = HistoryLen

\* C9: a disconnect of a registered connection id removes its participant
\* (and no other) and broadcasts exactly one userLeft with its username to
\* the remaining connections; a disconnect of an unregistered connection id
\* leaves the registry unchanged and emits nothing.
C9_DisconnectNotifies ==
  [][last'.op = "disconnect" =>
       LET s == last'.socket
       IN IF MapHas(activeUsers, s)
          THEN /\ ~MapHas(activeUsers', s)
               /\ Len(activeUsers') = Len(activeUsers) - 1
               /\ \A c \in Conns \ {s} :
                     /\ MapHas(activeUsers', c) = MapHas(activeUsers, c)
                     /\ MapHas(activeUsers, c) =>
                          MapGet(activeUsers', c) = MapGet(activeUsers, c)
               /\ Len(out') = 1
               /\ out'[1].event = "userLeft"
               /\ out'[1].payload.username = MapGet(activeUsers, s).username
               /\ out'[1].to = {c \in Conns : sock'[c] = "open"} \ {s}
               /\ s \notin out'[1].to
          ELSE /\ activeUsers' = activeUsers
               /\ out' = <<>>]_vars

\* C9 witness: a registered participant has disconnected and a remaining
\* connection was notified
C9_Witness ==
  /\ last.op = "disconnect"
  /\ last.registered
  /\ Len(out) = 1
  /\ out[1].event = "userLeft"
  /\ out[1].to # {}

\* C10: when the save of a message fails, the log is not rolled back (the
\* message stays while it is among the last Capacity appended), its newMessage
\* is broadcast to every connection, nothing else is emitted to any client,
\* and save is not called again.
C10_FailedSaveStillBroadcasts ==
  [][last'.op = "saveRejected" =>
       /\ messages' = messages
       /\ last'.seq > appended - Capacity =>
             \E i \in 1..Len(messages') : messages'[i].seq = last'.seq
       /\ Len(out') = 1
       /\ out'[1].event = "newMessage"
       /\ out'[1].payload.seq = last'.seq
       /\ out'[1].to = Open
       /\ saveCalls' = saveCalls
       /\ Len(SelectSeq(saveCalls', LAMBDA n : n = last'.seq)) = 1
       /\ \A p \in pending' : p.message.seq # last'.seq]_vars

\* C10 witness: a save has failed and the message reached a connection
C10_Witness ==
  /\ last.op = "saveRejected"
  /\ Len(out) = 1
  /\ out[1].event = "newMessage"
  /\ out[1].to # {}
  /\ \E i \in 1..Len(messages) : messages[i].seq = last.seq

\* C11: the messageHistory handed to a joiner holds every message that has
\* already been broadcast as newMessage and is among the HistoryLen most
\* recently appended messages at the time of the join.
C11_HistoryHoldsBroadcastMessages ==
  last.op = "join" =>
    LET mh == Emitted("messageHistory")
    IN /\ Len(mh) = 1
       /\ \A i \in 1..Len(broadcastOrder) :
             broadcastOrder[i] > appended - HistoryLen =>
               \E j \in 1..Len(mh[1].payload) :
                  mh[1].payload[j].seq = broadcastOrder[i]

\* C11 witness: a join while another connection's send is in flight, the log
\* longer than HistoryLen, the newest broadcast message in the history handed out
C11_Witness ==
  /\ last.op = "join"
  /\ Len(messages) > HistoryLen
  /\ \E p \in pending : p.socket # last.socket
  /\ Len(broadcastOrder) > 0
  /\ Len(Emitted("messageHistory")) = 1
  /\ \E j \in 1..Len(Emitted("messageHistory")[1].payload) :
        Emitted("messageHistory")[1].payload[j].seq
          = broadcastOrder[Len(broadcastOrder)]

\* C12: a typing event of an unregistered connection id emits nothing; one of
\* a registered participant broadcasts exactly one userTyping with its
\* username and the isTyping it sent, to the other connections; either way
\* the registry and the log are unchanged and no save is called.
C12_TypingChangesNothing ==
  [][last'.op = "typing" =>
       LET s == last'.socket
       IN /\ activeUsers' = activeUsers
          /\ messages' = messages
          /\ appended' = appended
          /\ saveCalls' = saveCalls
          /\ pending' = pending
          /\ IF MapHas(activeUsers, s)
             THEN /\ Len(out') = 1
                  /\ out'[1].event = "userTyping"
                  /\ out'[1].to = Open \ {s}
                  /\ out'[1].payload =
                       [username |-> MapGet(activeUsers, s).username,
                        isTyping |-> last'.arg]
             ELSE out' = <<>>]_vars

\* C12 witness: an unregistered connection has sent typing(true) while another
\* participant is registered and connected
C12_Witness ==
  /\ last.op = "typing"
  /\ last.arg
  /\ ~last.registered
  /\ out = <<>>
  /\ \E c \in Open \ {last.socket} : MapHas(activeUsers, c)

C14_UsernameImmutable ==
  [][/\ \A j \in 1..Len(messages') :
          IF messages'[j].seq > appended
          THEN /\ last'.op = "sendMessage"
               /\ MapHas(activeUsers, last'.socket)
               /\ messages'[j].username
                    = MapGet(activeUsers, last'.socket).username
          ELSE \E i \in 1..Len(messages) :
                  /\ messages[i].seq = messages'[j].seq
                  /\ messages[i].username = messages'[j].username
     /\ \A p \in pending' :
          IF p.message.seq > appended
          THEN /\ last'.op = "sendMessage"
               /\ MapHas(activeUsers, last'.socket)
               /\ p.message.username
                    = MapGet(activeUsers, last'.socket).username
          ELSE p \in pending
     /\ \A k \in 1..Len(out') :
          /\ out'[k].event = "newMessage" =>
               /\ last'.op \in {"saveResolved", "saveRejected"} =>
                    \E p \in pending :
                       /\ p.message.seq = out'[k].payload.seq
                       /\ p.message.username = out'[k].payload.username
               /\ \A j \in 1..Len(messages') :
                     messages'[j].seq = out'[k].payload.seq =>
                       messages'[j].username = out'[k].payload.username
          /\ out'[k].event = "messageHistory" =>
               \A h \in 1..Len(out'[k].payload) :
                  \E i \in 1..Len(messages) :
                     /\ messages[i].seq = out'[k].payload[h].seq
                     /\ messages[i].username = out'[k].payload[h].username]_vars

\* C14 witness: a message is broadcast under the name its sender had when it
\* sent it, after the sender has joined again under another name
C14_Witness ==
  /\ last.op = "saveResolved"
  /\ Len(out) = 1
  /\ out[1].event = "newMessage"
  /\ MapHas(activeUsers, last.socket)
  /\ MapGet(activeUsers, last.socket).username # out[1].payload.username
  /\ \E j \in 1..Len(messages) :
        /\ messages[j].seq = last.seq
        /\ messages[j].username = out[1].payload.username

\* C15: provided every save settles, every message accepted from a registered
\* participant is eventually broadcast as newMessage, and no message is ever
\* broadcast twice or without having been appended, also when its sender
\* disconnects before the save settles.
C15_EveryMessageBroadcastOnce ==
  /\ [](/\ \A i, j \in 1..Len(broadcastOrder) :
             broadcastOrder[i] = broadcastOrder[j] => i = j
        /\ \A i \in 1..Len(broadcastOrder) : broadcastOrder[i] \in 1..appended
        /\ Len(Emitted("newMessage")) <= 1)
  /\ \A n \in 1..MaxOrderSends :
        (appended >= n) ~> (\E i \in 1..Len(broadcastOrder) : broadcastOrder[i] = n)

\* C15 witness: a message is broadcast after its sender has disconnected while
\* the save was pending
C15_Witness ==
  /\ last.op \in {"saveResolved", "saveRejected"}
  /\ sock[last.socket] = "closed"
  /\ ~MapHas(activeUsers, last.socket)
  /\ \E i \in 1..Len(broadcastOrder) : broadcastOrder[i] = last.seq

\* C16: a message of another connection that was in the messageHistory
\* handed to a joiner is never afterwards also delivered to that joiner as
\* newMessage.
C16_NoMessageTwice ==
  [][\A k \in 1..Len(out') :
        out'[k].event = "newMessage" =>
          \A c \in out'[k].to \ {last'.socket} :
             <<c, out'[k].payload.seq>> \notin owed]_vars

\* C17: every newMessage is broadcast while its sender is still registered:
\* none is broadcast after the sender's disconnect and userLeft.
C17_BroadcastWhileSenderRegistered ==
  \A k \in 1..Len(out) :
     out[k].event = "newMessage" => MapHas(activeUsers, last.socket)

====
